---- MODULE Spec2Model ----
(***************************************************************************)
(* UniDrive: the file-system backed document / folder / preview store     *)
(* behind the REST handlers of src/app/api.  Every handler is one action;  *)
(* the storage directories are the state.                                  *)
(*                                                                         *)
(* Strings that the handlers inspect character by character (titles,      *)
(* folder names) are sequences of one-character strings.  A JSON value of  *)
(* a request body is a record [kind, v]: kind is the JavaScript type and   *)
(* v the characters of the value (the dataStream of an object payload).    *)
(***************************************************************************)
EXTENDS Integers, Sequences, FiniteSets, TLC

(***************************************************************************)
(* Bounds of the model                                                     *)
(***************************************************************************)
MaxDocs == 1
MaxFolders == 2
MaxTime == 1
MaxPad == 2
MaxWords == 3

(***************************************************************************)
(* Program constants                                                       *)
(***************************************************************************)
MaxTitleLen == 100
MaxNameLen == 50
Width == 300
Padding == 20
FontSize == 12

(***************************************************************************)
(* JavaScript / JSON values                                                *)
(***************************************************************************)
Undef == [kind |-> "undefined", v |-> <<>>]
JNull == [kind |-> "null", v |-> <<>>]
Str(s) == [kind |-> "string", v |-> s]
Num(s) == [kind |-> "number", v |-> s]
Obj(s) == [kind |-> "object", v |-> s]

\* JavaScript truthiness, as used by `x ? a : b`, `x || y`, `x && y`, `!x`.
Truthy(x) ==
  CASE x.kind = "undefined" -> FALSE
    [] x.kind = "null" -> FALSE
    [] x.kind = "string" -> x.v # <<>>
    [] x.kind = "number" -> x.v # <<"0">>
    [] OTHER -> TRUE

\* `a ?? b`
OrElseNullish(a, b) == IF a.kind \in {"undefined", "null"} THEN b ELSE a

\* `a || b`
OrElse(a, b) == IF Truthy(a) THEN a ELSE b

\* Length of JSON.stringify(x) for a value of a request body.
JsonLen(x) ==
  CASE x.kind = "string" -> Len(x.v) + 2
    [] x.kind = "number" -> Len(x.v)
    [] x.kind = "null" -> 4
    [] x.kind = "object" -> Len(x.v) + 30
    [] OTHER -> 0

(***************************************************************************)
(* Sanitisation: .replace(/[<>:"/\\|?*]/g, '').trim().substring(0, max)    *)
(***************************************************************************)
UnsafeChars == {"<", ">", ":", "\"", "/", "\\", "|", "?", "*"}
Whitespace == {" ", "\t", "\n", "\r"}

IsSafeChar(c) == c \notin UnsafeChars

\* String.prototype.replace(/[<>:"/\\|?*]/g, '')
StripUnsafe(s) == SelectSeq(s, IsSafeChar)

RECURSIVE TrimStart(_)
TrimStart(s) ==
  IF s # <<>> /\ Head(s) \in Whitespace THEN TrimStart(Tail(s)) ELSE s

RECURSIVE TrimEnd(_)
TrimEnd(s) ==
  IF s # <<>> /\ s[Len(s)] \in Whitespace
    THEN TrimEnd(SubSeq(s, 1, Len(s) - 1))
    ELSE s

\* String.prototype.trim()
Trim(s) == TrimEnd(TrimStart(s))

\* String.prototype.substring(0, n)
Substring0(s, n) == IF Len(s) <= n THEN s ELSE SubSeq(s, 1, n)

Sanitize(s, max) == Substring0(Trim(StripUnsafe(s)), max)

UntitledDocument ==
  <<"U", "n", "t", "i", "t", "l", "e", "d", " ",
    "D", "o", "c", "u", "m", "e", "n", "t">>

\* body.title ? body.title.replace(...).trim().substring(0, 100) : 'Untitled Document'
SanitizedTitle(title) ==
  IF Truthy(title) THEN Sanitize(title.v, MaxTitleLen) ELSE UntitledDocument

\* body.name.replace(...).trim().substring(0, 50)
SanitizedName(name) == Sanitize(name.v, MaxNameLen)

(***************************************************************************)
(* Identifiers: doc_<ts>_<rand> and folder_<ts>_<rand>; the n-th generated *)
(* identifier of a kind is <<kind, n>>.                                    *)
(***************************************************************************)
DocId(n) == <<"doc", n>>
FolderId(n) == <<"folder", n>>
NoId == <<"none", 0>>

DocIds == {DocId(n) : n \in 1..MaxDocs}
FolderIds == {FolderId(n) : n \in 1..MaxFolders}

\* id.startsWith('doc_') / id.startsWith('folder_')
IsDocId(id) == id[1] = "doc"
IsFolderId(id) == id[1] = "folder"

(***************************************************************************)
(* State: the four storage directories, the background preview jobs, the   *)
(* identifier generators, the clock and the last request with its response *)
(***************************************************************************)
VARIABLES
  docs,        \* storage/documents/<id>.json : id -> content record
  meta,        \* storage/metadata/<id>.json  : id -> metadata record
  folders,     \* storage/folders/<id>.json   : id -> folder record
  foldersDir,  \* whether storage/folders exists
  previews,    \* storage/previews/<id>.<ext> : <<id, ext>> -> [mtime, src]
  pending,     \* generatePreview calls started and not yet written
  nextDoc,     \* number of the next generated document id
  nextFolder,  \* number of the next generated folder id
  now,         \* Date.now()
  last,        \* the last request and its response
  urlSeen,     \* id -> URL getPreviewUrl returned since the last preview write
  san,         \* a text function applied on its own: [pc, kind, input, out]
  reqs,        \* route handlers between two awaits: request -> its local variables
  editor       \* the create page and its editor: refs, state and pending callbacks

vars ==
  <<docs, meta, folders, foldersDir, previews, pending, nextDoc, nextFolder,
    now, last, urlSeen, san, reqs, editor>>

storeVars == <<docs, meta, folders, foldersDir, previews, pending, nextDoc, nextFolder>>

EmptyFiles == [k \in {} |-> 0]

\* writeFile(path(k), v)
WriteFile(dir, k, v) == [x \in DOMAIN dir \cup {k} |-> IF x = k THEN v ELSE dir[x]]

\* unlink of every path in ks
Unlink(dir, ks) == [x \in DOMAIN dir \ ks |-> dir[x]]

NoUrl == [kind |-> "none", id |-> NoId, t |-> 0]
Placeholder == [kind |-> "placeholder", id |-> NoId, t |-> 0]
PreviewUrl(id, t) == [kind |-> "svg", id |-> id, t |-> t]

NoRequest ==
  [op |-> "none", id |-> NoId, status |-> 0, title |-> Undef, content |-> Undef,
   target |-> NoId, out |-> NoId]

Response(op, id, status, title, content, target, out) ==
  [op |-> op, id |-> id, status |-> status, title |-> title, content |-> content,
   target |-> target, out |-> out]

\* no handler is between two awaits
NoReqs == [r \in {} |-> 0]

\* the create page is not open
ClosedEditor == [open |-> FALSE]

IdleSan == [pc |-> "idle", kind |-> "none", input |-> Undef, out |-> <<>>]

InitStore ==
  /\ docs = EmptyFiles
  /\ meta = EmptyFiles
  /\ folders = EmptyFiles
  /\ foldersDir = FALSE
  /\ previews = EmptyFiles
  /\ pending = {}
  /\ nextDoc = 1
  /\ nextFolder = 1
  /\ now = 0
  /\ last = NoRequest
  /\ urlSeen = [d \in DocIds |-> NoUrl]
  /\ reqs = NoReqs
  /\ editor = ClosedEditor

Init == InitStore /\ san = IdleSan

\* The clock advances between (never inside) requests.
Tick ==
  /\ now < MaxTime
  /\ now' = now + 1
  /\ UNCHANGED <<storeVars, last, urlSeen, san, reqs, editor>>

(***************************************************************************)
(* Document Store: src/app/api/documents/route.ts and [id]/route.ts        *)
(***************************************************************************)
\* the default content of POST /documents: an empty dataStream
DefaultContent == Obj(<<>>)

\* JSON.stringify(documentData).length
SizeOf(d) == Len(d.title) + JsonLen(d.content) + 120

\* body.title && typeof body.title !== 'string'
BadTitle(title) == Truthy(title) /\ title.kind # "string"

\* the metadata record POST writes beside the content record
NewMetadata(d) ==
  [id |-> d.id, title |-> d.title, createdAt |-> d.createdAt,
   modifiedAt |-> d.modifiedAt, size |-> SizeOf(d), folderId |-> NoId]

\* POST /documents: the handler
PostDocument(title, content) ==
     IF BadTitle(title)
       THEN /\ last' = Response("createDocument", NoId, 400, title, content, NoId, NoId)
            /\ UNCHANGED storeVars
       ELSE LET id == DocId(nextDoc)
                d == [id |-> id, title |-> SanitizedTitle(title),
                      content |-> OrElse(content, DefaultContent),
                      createdAt |-> now, modifiedAt |-> now]
            IN /\ docs' = WriteFile(docs, id, d)
               /\ meta' = WriteFile(meta, id, NewMetadata(d))
               /\ pending' = pending \cup {[id |-> id, content |-> d.content]}
               /\ nextDoc' = nextDoc + 1
               /\ last' = Response("createDocument", id, 200, title, content, NoId, d.title)
               /\ UNCHANGED <<folders, foldersDir, previews, nextFolder>>

\* POST /documents
CreateDocument(title, content) ==
  /\ nextDoc <= MaxDocs
  /\ PostDocument(title, content)
  /\ UNCHANGED <<now, urlSeen, san, reqs, editor>>

\* the documents GET /documents returns, from the metadata records
ListedDocuments(metadataFiles) ==
  {[id |-> metadataFiles[k].id, title |-> metadataFiles[k].title,
    modifiedAt |-> metadataFiles[k].modifiedAt,
    folderId |-> metadataFiles[k].folderId] : k \in DOMAIN metadataFiles}

\* data.documents.filter(doc => !doc.folderId): the list of the home page
RootDocuments(listed) == {d \in listed : d.folderId = NoId}

\* GET /documents
ListDocuments ==
  /\ last' = Response("listDocuments", NoId, 200, Undef, Undef, NoId, ListedDocuments(meta))
  /\ UNCHANGED <<storeVars, now, urlSeen, san, reqs, editor>>

\* GET /documents/{id}
GetDocument(id) ==
  /\ IF id \notin DOMAIN docs
       THEN last' = Response("getDocument", id, 404, Undef, Undef, NoId, NoId)
       ELSE last' = Response("getDocument", id, 200, Undef, Undef, NoId, docs[id])
  /\ UNCHANGED <<storeVars, now, urlSeen, san, reqs, editor>>

\* the document record PUT writes: {...existingDocument, title, content, modifiedAt}
UpdatedDocument(existing, title, content, t) ==
  [existing EXCEPT !.title = SanitizedTitle(title),
                   !.content = OrElse(content, existing.content),
                   !.modifiedAt = t]

\* the metadata record of PUT with the size of the record as it was stored
StaleSizeMetadata(id, existing, updated) ==
  [id |-> id, title |-> updated.title, createdAt |-> existing.createdAt,
   modifiedAt |-> updated.modifiedAt, size |-> SizeOf(existing), folderId |-> NoId]

\* the metadata record PUT writes
UpdatedMetadata(id, existing, updated) ==
  [id |-> id, title |-> updated.title, createdAt |-> existing.createdAt,
   modifiedAt |-> updated.modifiedAt, size |-> SizeOf(updated), folderId |-> NoId]

\* PUT /documents/{id}: the handler
PutDocument(id, title, content) ==
     IF BadTitle(title)
       THEN /\ last' = Response("updateDocument", id, 400, title, content, NoId, NoId)
            /\ UNCHANGED storeVars
       ELSE IF id \notin DOMAIN docs
       THEN /\ last' = Response("updateDocument", id, 404, title, content, NoId, NoId)
            /\ UNCHANGED storeVars
       ELSE LET updated == UpdatedDocument(docs[id], title, content, now)
            IN /\ docs' = WriteFile(docs, id, updated)
               /\ meta' = WriteFile(meta, id, UpdatedMetadata(id, docs[id], updated))
               /\ pending' = IF Truthy(content)
                               THEN pending \cup {[id |-> id, content |-> content]}
                               ELSE pending
               /\ last' = Response("updateDocument", id, 200, title, content, NoId,
                                   updated.title)
               /\ UNCHANGED <<folders, foldersDir, previews, nextDoc, nextFolder>>

\* PUT /documents/{id}
UpdateDocument(id, title, content) ==
  /\ PutDocument(id, title, content)
  /\ UNCHANGED <<now, urlSeen, san, reqs, editor>>

\* the preview path DELETE /documents/{id} unlinks
DeletedPreviewPath(id) == <<id, "png">>

\* DELETE /documents/{id}
DeleteDocument(id) ==
  /\ IF id \notin DOMAIN docs
       THEN /\ last' = Response("deleteDocument", id, 404, Undef, Undef, NoId, NoId)
            /\ UNCHANGED storeVars
       ELSE IF id \notin DOMAIN meta
       THEN \* unlink(metadataPath) throws after the content file is gone
            /\ docs' = Unlink(docs, {id})
            /\ last' = Response("deleteDocument", id, 500, Undef, Undef, NoId, NoId)
            /\ UNCHANGED <<meta, folders, foldersDir, previews, pending, nextDoc, nextFolder>>
       ELSE /\ docs' = Unlink(docs, {id})
            /\ meta' = Unlink(meta, {id})
            /\ previews' = Unlink(previews, {DeletedPreviewPath(id)})
            /\ last' = Response("deleteDocument", id, 200, Undef, Undef, NoId, NoId)
            /\ UNCHANGED <<folders, foldersDir, pending, nextDoc, nextFolder>>
  /\ UNCHANGED <<now, urlSeen, san, reqs, editor>>

(***************************************************************************)
(* Preview Generator: src/utils/generate-missing-previews.ts (second half) *)
(***************************************************************************)
\* the path generatePreview writes
PreviewPath(id) == <<id, "svg">>

\* generatePreview(documentId, document), from its writeFile on: the handlers
\* start it without awaiting it, so the write lands as a step of its own.
GeneratePreview(job) ==
  /\ job \in pending
  /\ previews' = WriteFile(previews, PreviewPath(job.id), [mtime |-> now, src |-> job.content])
  /\ pending' = pending \ {job}
  /\ urlSeen' = [urlSeen EXCEPT ![job.id] = NoUrl]
  /\ UNCHANGED <<docs, meta, folders, foldersDir, nextDoc, nextFolder, now, last, san, reqs, editor>>

\* a generatePreview whose failure reaches the handler that started it
GeneratePreviewRethrows(job) ==
  /\ job \in pending
  /\ pending' = pending \ {job}
  /\ last' = [last EXCEPT !.status = 500]
  /\ docs' = Unlink(docs, {job.id})
  /\ UNCHANGED <<meta, folders, foldersDir, previews, nextDoc, nextFolder, now, urlSeen, san, reqs, editor>>

\* generatePreview(documentId, document) rejects (a failed mkdir or writeFile, a
\* dataStream that is no string): the .catch of the handler that started it
\* logs the error, and nothing else happens
GeneratePreviewFails(job) ==
  /\ job \in pending
  /\ pending' = pending \ {job}
  /\ UNCHANGED <<docs, meta, folders, foldersDir, previews, nextDoc, nextFolder,
                 now, last, urlSeen, san, reqs, editor>>

\* Math.floor((width - padding * 2) / (fontSize * 0.6))
MaxCharsPerLine == ((Width - Padding * 2) * 10) \div (FontSize * 6)

Ellipsis == <<".", ".", ".">>

\* the positions of text where a word starts, and where the word that starts
\* at position i ends
WordStarts(text) ==
  {i \in 1..Len(text) :
     text[i] \notin Whitespace /\ (i = 1 \/ text[i - 1] \in Whitespace)}

WordEnd(text, i) ==
  CHOOSE j \in i..Len(text) :
    /\ \A k \in i..j : text[k] \notin Whitespace
    /\ j = Len(text) \/ text[j + 1] \in Whitespace

RECURSIVE WordsFrom(_, _)
WordsFrom(text, starts) ==
  IF starts = {} THEN <<>>
  ELSE LET i == CHOOSE x \in starts : \A y \in starts : x <= y
       IN <<SubSeq(text, i, WordEnd(text, i))>> \o WordsFrom(text, starts \ {i})

\* text.split(/\s+/).filter(word => word.length > 0)
SplitWords(text) == WordsFrom(text, WordStarts(text))

\* the loop `for (const word of words)` of generatePreview and the push of the
\* last currentLine
RECURSIVE WrapFrom(_, _, _)
WrapFrom(words, displayLines, currentLine) ==
  IF words = <<>>
    THEN (IF currentLine # <<>> THEN Append(displayLines, currentLine) ELSE displayLines)
    ELSE LET word == Head(words)
             testLine == currentLine \o (IF currentLine # <<>> THEN <<" ">> ELSE <<>>) \o word
         IN IF Len(testLine) > MaxCharsPerLine
              THEN IF currentLine # <<>>
                     THEN WrapFrom(Tail(words), Append(displayLines, currentLine), word)
                     ELSE WrapFrom(Tail(words),
                                   Append(displayLines,
                                          Substring0(word, MaxCharsPerLine - 3) \o Ellipsis),
                                   <<>>)
              ELSE WrapFrom(Tail(words), displayLines, testLine)

\* the display lines of one logical line of the document
DisplayLines(text) == WrapFrom(SplitWords(text), <<>>, <<>>)

\* the path whose existence makes the batch run skip a document
BatchPreviewPath(id) == <<id, "png">>

\* the documents of a batch run that are skipped / get a preview generated
BatchSkipped == {d \in DOMAIN docs : BatchPreviewPath(d) \in DOMAIN previews}
BatchGenerated == DOMAIN docs \ BatchSkipped

\* POST /generate-previews, and generateMissingPreviews(): the loop over the
\* content files; each generatePreview is awaited, so its write is part of the run
GeneratePreviews ==
  /\ previews' =
       [k \in DOMAIN previews \cup {PreviewPath(d) : d \in BatchGenerated} |->
          IF \E d \in BatchGenerated : k = PreviewPath(d)
            THEN [mtime |-> now, src |-> docs[k[1]].content]
            ELSE previews[k]]
  /\ urlSeen' = [d \in DOMAIN urlSeen |-> IF d \in BatchGenerated THEN NoUrl ELSE urlSeen[d]]
  /\ last' = Response("generatePreviews", NoId, 200, Undef, Undef, NoId,
                      [total |-> Cardinality(DOMAIN docs),
                       generated |-> Cardinality(BatchGenerated),
                       skipped |-> Cardinality(BatchSkipped),
                       errors |-> 0])
  /\ UNCHANGED <<docs, meta, folders, foldersDir, pending, nextDoc, nextFolder, now, san, reqs, editor>>

\* getPreviewUrl with Date.now() as the cache-bust token
UrlOfNow(id) ==
  IF <<id, "svg">> \in DOMAIN previews THEN PreviewUrl(id, now) ELSE Placeholder

\* the URL getPreviewUrl(documentId) returns
UrlOf(id) ==
  IF PreviewPath(id) \in DOMAIN previews
    THEN PreviewUrl(id, previews[PreviewPath(id)].mtime)
    ELSE Placeholder

\* getPreviewUrl(documentId)
GetPreviewUrl(id) ==
  /\ last' = Response("getPreviewUrl", id, 200, Undef, Undef, NoId, UrlOf(id))
  /\ urlSeen' = [urlSeen EXCEPT ![id] = UrlOf(id)]
  /\ UNCHANGED <<storeVars, now, san, reqs, editor>>

(***************************************************************************)
(* Move Coordinator: src/app/api/documents/[id]/move/route.ts              *)
(***************************************************************************)
\* folderCounts.get(f) || 0 : the metadata records whose folderId is f
LiveCount(metadataFiles, f) ==
  Cardinality({k \in DOMAIN metadataFiles : metadataFiles[k].folderId = f})

\* [oldFolderId, newFolderId].filter(id => id && id.startsWith('folder_'))
FoldersToUpdate(oldFolderId, newFolderId) ==
  {f \in {oldFolderId, newFolderId} : IsFolderId(f)}

\* updateFolderCounts counting the metadata records as they were before the
\* move wrote the document's record
UpdateFolderCountsBeforeWrite(folderFiles, metadataFiles, oldFolderId, newFolderId, t) ==
  [f \in DOMAIN folderFiles |->
     IF f \in FoldersToUpdate(oldFolderId, newFolderId)
       THEN [folderFiles[f] EXCEPT !.documentCount = LiveCount(meta, f),
                                   !.modifiedAt = t]
       ELSE folderFiles[f]]

\* updateFolderCounts(oldFolderId, newFolderId)
UpdateFolderCounts(folderFiles, metadataFiles, oldFolderId, newFolderId, t) ==
  [f \in DOMAIN folderFiles |->
     IF f \in FoldersToUpdate(oldFolderId, newFolderId)
       THEN [folderFiles[f] EXCEPT !.documentCount = LiveCount(metadataFiles, f),
                                   !.modifiedAt = t]
       ELSE folderFiles[f]]

\* a move that does not look for the record of its target folder
TargetFolderNeverMissing(target) == FALSE

\* folderId given and !existsSync(folderPath)
TargetFolderMissing(target) == target # NoId /\ target \notin DOMAIN folders

\* PUT /documents/{id}/move with body {folderId: target}; NoId is null
MoveDocument(id, target) ==
  /\ IF ~IsDocId(id)
       THEN /\ last' = Response("move", id, 400, Undef, Undef, target, NoId)
            /\ UNCHANGED storeVars
       ELSE IF target # NoId /\ ~IsFolderId(target)
       THEN /\ last' = Response("move", id, 400, Undef, Undef, target, NoId)
            /\ UNCHANGED storeVars
       ELSE IF TargetFolderMissing(target)
       THEN /\ last' = Response("move", id, 404, Undef, Undef, target, NoId)
            /\ UNCHANGED storeVars
       ELSE IF id \notin DOMAIN meta
       THEN /\ last' = Response("move", id, 404, Undef, Undef, target, NoId)
            /\ UNCHANGED storeVars
       ELSE LET oldFolderId == meta[id].folderId
                moved == [meta[id] EXCEPT !.folderId = target, !.modifiedAt = now]
                written == WriteFile(meta, id, moved)
            IN /\ meta' = written
               /\ folders' = UpdateFolderCounts(folders, written, oldFolderId, target, now)
               /\ last' = Response("move", id, 200, Undef, Undef, target, oldFolderId)
               /\ UNCHANGED <<docs, foldersDir, previews, pending, nextDoc, nextFolder>>
  /\ UNCHANGED <<now, urlSeen, san, reqs, editor>>

(***************************************************************************)
(* Folder Store: src/app/api/folders/route.ts and the folders/[id] route   *)
(* (the second half of src/app/document/create/page.tsx)                   *)
(***************************************************************************)
Notes == <<"N", "o", "t", "e", "s">>
Journal == <<"J", "o", "u", "r", "n", "a", "l">>

\* the folder record POST /folders and createDefaultFolders write
NewFolder(id, name, parent, t) ==
  [id |-> id, name |-> name, parentFolderId |-> parent, createdAt |-> t,
   modifiedAt |-> t, documentCount |-> 0]

\* createDefaultFolders()
CreateDefaultFolders(folderFiles, n, t) ==
  WriteFile(WriteFile(folderFiles, FolderId(n), NewFolder(FolderId(n), Notes, NoId, t)),
            FolderId(n + 1), NewFolder(FolderId(n + 1), Journal, NoId, t))

\* the folders GET /folders returns: those without a parent
RootFolders(folderFiles) ==
  {f \in DOMAIN folderFiles : folderFiles[f].parentFolderId = NoId}

\* GET /folders
ListFolders ==
  /\ IF ~foldersDir
       THEN /\ nextFolder + 1 <= MaxFolders
            /\ folders' = CreateDefaultFolders(folders, nextFolder, now)
            /\ foldersDir' = TRUE
            /\ nextFolder' = nextFolder + 2
       ELSE UNCHANGED <<folders, foldersDir, nextFolder>>
  /\ last' = Response("listFolders", NoId, 200, Undef, Undef, NoId, RootFolders(folders'))
  /\ UNCHANGED <<docs, meta, previews, pending, nextDoc, now, urlSeen, san, reqs, editor>>

\* !body.name || typeof body.name !== 'string'
BadName(name) == ~Truthy(name) \/ name.kind # "string"

\* POST /folders with body {name, parentFolderId: parent}
CreateFolder(name, parent) ==
  /\ nextFolder <= MaxFolders
  /\ IF BadName(name) \/ SanitizedName(name) = <<>>
       THEN /\ last' = Response("createFolder", NoId, 400, name, Undef, parent, NoId)
            /\ UNCHANGED storeVars
       ELSE LET id == FolderId(nextFolder)
            IN /\ foldersDir' = TRUE
               /\ folders' = WriteFile(folders, id, NewFolder(id, SanitizedName(name), parent, now))
               /\ nextFolder' = nextFolder + 1
               /\ last' = Response("createFolder", id, 200, name, Undef, parent, NoId)
               /\ UNCHANGED <<docs, meta, previews, pending, nextDoc>>
  /\ UNCHANGED <<now, urlSeen, san, reqs, editor>>

\* the subfolders GET /folders/{id} returns
Subfolders(folderFiles, id) ==
  {f \in DOMAIN folderFiles : folderFiles[f].parentFolderId = id}

\* the documents GET /folders/{id} returns
DocumentsIn(metadataFiles, id) ==
  {k \in DOMAIN metadataFiles : metadataFiles[k].folderId = id}

\* a Folder Get that answers with the record as it is stored
UnrepairedFolder(folderData, count, t) == folderData

\* if (documents.length !== folderData.documentCount) { ...; writeFile(...) }
RepairedFolder(folderData, count, t) ==
  IF count # folderData.documentCount
    THEN [folderData EXCEPT !.documentCount = count, !.modifiedAt = t]
    ELSE folderData

\* GET /folders/{id}
GetFolder(id) ==
  /\ IF ~IsFolderId(id)
       THEN /\ last' = Response("getFolder", id, 400, Undef, Undef, NoId, NoId)
            /\ UNCHANGED storeVars
       ELSE IF id \notin DOMAIN folders
       THEN /\ last' = Response("getFolder", id, 404, Undef, Undef, NoId, NoId)
            /\ UNCHANGED storeVars
       ELSE LET documents == DocumentsIn(meta, id)
                folderData == RepairedFolder(folders[id], Cardinality(documents), now)
            IN /\ folders' = WriteFile(folders, id, folderData)
               /\ last' = Response("getFolder", id, 200, Undef, Undef, NoId,
                                   [folder |-> folderData,
                                    subfolders |-> Subfolders(folders, id),
                                    documents |-> documents])
               /\ UNCHANGED <<docs, meta, foldersDir, previews, pending, nextDoc, nextFolder>>
  /\ UNCHANGED <<now, urlSeen, san, reqs, editor>>

\* PUT /folders/{id} with body {name}
RenameFolder(id, name) ==
  /\ IF ~IsFolderId(id)
       THEN /\ last' = Response("renameFolder", id, 400, name, Undef, NoId, NoId)
            /\ UNCHANGED storeVars
       ELSE IF id \notin DOMAIN folders
       THEN /\ last' = Response("renameFolder", id, 404, name, Undef, NoId, NoId)
            /\ UNCHANGED storeVars
       ELSE IF ~BadName(name) /\ SanitizedName(name) = <<>>
       THEN /\ last' = Response("renameFolder", id, 400, name, Undef, NoId, NoId)
            /\ UNCHANGED storeVars
       ELSE LET folderData ==
                  IF ~BadName(name)
                    THEN [folders[id] EXCEPT !.name = SanitizedName(name), !.modifiedAt = now]
                    ELSE folders[id]
            IN /\ folders' = WriteFile(folders, id, folderData)
               /\ last' = Response("renameFolder", id, 200, name, Undef, NoId, NoId)
               /\ UNCHANGED <<docs, meta, foldersDir, previews, pending, nextDoc, nextFolder>>
  /\ UNCHANGED <<now, urlSeen, san, reqs, editor>>

\* deleteDocumentsInFolder without the unlink of the content file
DeleteMetadataInFolder(s, folderId) ==
  [s EXCEPT !.meta = Unlink(s.meta, {k \in DOMAIN s.meta : s.meta[k].folderId = folderId})]

\* deleteDocumentsInFolder(folderId) on the files s = [docs, meta, folders]
DeleteDocumentsInFolder(s, folderId) ==
  LET hit == {k \in DOMAIN s.meta : s.meta[k].folderId = folderId}
  IN [s EXCEPT !.docs = Unlink(s.docs, {s.meta[k].id : k \in hit}),
               !.meta = Unlink(s.meta, hit)]

\* deleteSubfoldersInFolder(folderId): the loop over the directory listing, from
\* its n-th file on; a file that is gone by its turn fails to read and is skipped
RECURSIVE DeleteSubfoldersFrom(_, _, _)
DeleteSubfoldersFrom(s, folderId, n) ==
  IF n >= nextFolder THEN s
  ELSE LET file == FolderId(n)
       IN IF file \in DOMAIN s.folders /\ s.folders[file].parentFolderId = folderId
            THEN LET emptied == DeleteSubfoldersFrom(DeleteDocumentsInFolder(s, file), file, 1)
                 IN DeleteSubfoldersFrom([emptied EXCEPT !.folders = Unlink(@, {file})],
                                         folderId, n + 1)
            ELSE DeleteSubfoldersFrom(s, folderId, n + 1)

\* deleteSubfoldersInFolder without the recursion into the subfolders
DeleteSubfoldersFlat(s, folderId) ==
  [s EXCEPT !.folders =
     Unlink(@, {f \in DOMAIN s.folders : s.folders[f].parentFolderId = folderId})]

DeleteSubfoldersInFolder(s, folderId) == DeleteSubfoldersFrom(s, folderId, 1)

\* DELETE /folders/{id}
DeleteFolder(id) ==
  /\ IF ~IsFolderId(id)
       THEN /\ last' = Response("deleteFolder", id, 400, Undef, Undef, NoId, NoId)
            /\ UNCHANGED storeVars
       ELSE IF id \notin DOMAIN folders
       THEN /\ last' = Response("deleteFolder", id, 404, Undef, Undef, NoId, NoId)
            /\ UNCHANGED storeVars
       ELSE LET s0 == [docs |-> docs, meta |-> meta, folders |-> folders]
                s1 == DeleteSubfoldersInFolder(DeleteDocumentsInFolder(s0, id), id)
            IN /\ docs' = s1.docs
               /\ meta' = s1.meta
               /\ folders' = Unlink(s1.folders, {id})
               \* out: the subfolder records and the documents the cascade removed
               /\ last' = Response("deleteFolder", id, 200, Undef, Undef, NoId,
                                   [folders |-> DOMAIN folders \ DOMAIN s1.folders,
                                    documents |-> DOMAIN meta \ DOMAIN s1.meta])
               /\ UNCHANGED <<foldersDir, previews, pending, nextDoc, nextFolder>>
  /\ UNCHANGED <<now, urlSeen, san, reqs, editor>>

\* the files unlink can be asked to remove: <<directory, id>>
UnlinkTargets ==
  {<<"documents", d>> : d \in DocIds} \cup {<<"metadata", d>> : d \in DocIds}
    \cup {<<"folders", f>> : f \in FolderIds}

\* deleteDocumentsInFolder(folderId) when unlink throws on the files of
\* broken: the catch inside the loop logs the error and the loop goes on, so
\* a document whose content file cannot be removed keeps both files, and one
\* whose metadata file cannot be removed keeps that file
DeleteDocumentsInFolderFailing(s, folderId, broken) ==
  LET hit == {k \in DOMAIN s.meta : s.meta[k].folderId = folderId}
      contentThrows(k) == s.meta[k].id \in DOMAIN s.docs /\ <<"documents", s.meta[k].id>> \in broken
      reached == {k \in hit : ~contentThrows(k)}
  IN [s EXCEPT !.docs = Unlink(s.docs, {s.meta[k].id : k \in reached}),
               !.meta = Unlink(s.meta, {k \in reached : <<"metadata", k>> \notin broken})]

\* deleteSubfoldersInFolder(folderId) when unlink throws on the files of
\* broken: a subfolder whose record cannot be removed is emptied and stays
RECURSIVE DeleteSubfoldersFailingFrom(_, _, _, _)
DeleteSubfoldersFailingFrom(s, folderId, broken, n) ==
  IF n >= nextFolder THEN s
  ELSE LET file == FolderId(n)
       IN IF file \in DOMAIN s.folders /\ s.folders[file].parentFolderId = folderId
            THEN LET emptied ==
                       DeleteSubfoldersFailingFrom(
                         DeleteDocumentsInFolderFailing(s, file, broken), file, broken, 1)
                     removed ==
                       IF <<"folders", file>> \in broken
                         THEN emptied
                         ELSE [emptied EXCEPT !.folders = Unlink(@, {file})]
                 IN DeleteSubfoldersFailingFrom(removed, folderId, broken, n + 1)
            ELSE DeleteSubfoldersFailingFrom(s, folderId, broken, n + 1)

\* DELETE /folders/{id} when unlink throws on the files of broken
DeleteFolderFailing(id, broken) ==
  /\ IF ~IsFolderId(id)
       THEN /\ last' = Response("deleteFolder", id, 400, Undef, Undef, NoId, NoId)
            /\ UNCHANGED storeVars
       ELSE IF id \notin DOMAIN folders
       THEN /\ last' = Response("deleteFolder", id, 404, Undef, Undef, NoId, NoId)
            /\ UNCHANGED storeVars
       ELSE LET s0 == [docs |-> docs, meta |-> meta, folders |-> folders]
                s1 == DeleteSubfoldersFailingFrom(
                        DeleteDocumentsInFolderFailing(s0, id, broken), id, broken, 1)
                thrown == <<"folders", id>> \in broken
            IN /\ docs' = s1.docs
               /\ meta' = s1.meta
               /\ folders' = IF thrown THEN s1.folders ELSE Unlink(s1.folders, {id})
               /\ last' = Response("deleteFolder", id, IF thrown THEN 500 ELSE 200,
                                   Undef, Undef, NoId,
                                   [folders |-> DOMAIN folders \ DOMAIN s1.folders,
                                    documents |-> DOMAIN meta \ DOMAIN s1.meta])
               /\ UNCHANGED <<foldersDir, previews, pending, nextDoc, nextFolder>>
  /\ UNCHANGED <<now, urlSeen, san, reqs, editor>>

(***************************************************************************)
(* Requests                                                                *)
(***************************************************************************)
TitleInputs == {Undef, Str(<<>>), Str(<<"a">>), Str(<<"?">>), Num(<<"5">>)}
ContentInputs == {Undef, JNull, Obj(<<"x">>), Str(<<>>)}

NameInputs == {Undef, Str(<<>>), Str(<<"n">>), Str(<<"?">>), Str(<<" ">>)}

\* the folder ids generated so far
GeneratedFolderIds == {FolderId(n) : n \in 1..(nextFolder - 1)}

(***************************************************************************)
(* Spec: the document / folder store, requests served one at a time.  The  *)
(* clock stands still and the started preview generations stay pending:    *)
(* no handler of the store reads the clock's value or storage/previews.    *)
(***************************************************************************)
Next ==
  \/ CreateDocument(Undef, Undef)
  \/ \E d \in DocIds : UpdateDocument(d, Undef, Undef)
  \/ \E d \in DocIds : DeleteDocument(d)
  \/ \E d \in DocIds, f \in FolderIds \cup {NoId} : MoveDocument(d, f)
  \/ ListDocuments
  \/ ListFolders
  \/ \E f \in GeneratedFolderIds \cup {NoId} : CreateFolder(Str(<<"n">>), f)
  \/ \E f \in FolderIds : GetFolder(f)
  \/ \E f \in FolderIds : RenameFolder(f, Str(<<"n">>))
  \/ \E f \in FolderIds : DeleteFolder(f)

Spec == Init /\ [][Next]_vars

(***************************************************************************)
(* SpecDoc: the document store with the clock and the request bodies of    *)
(* TitleInputs x ContentInputs; the started preview generations stay       *)
(* pending.                                                                *)
(***************************************************************************)
NextDoc ==
  \/ Tick
  \/ \E t \in TitleInputs, c \in ContentInputs : CreateDocument(t, c)
  \/ \E d \in DocIds : GetDocument(d)
  \/ \E d \in DocIds, t \in TitleInputs, c \in ContentInputs : UpdateDocument(d, t, c)
  \/ \E d \in DocIds : DeleteDocument(d)

SpecDoc == Init /\ [][NextDoc]_vars

(***************************************************************************)
(* SpecPreview: the preview files: documents are created, saved with new   *)
(* content and deleted, the background preview writes land at any later    *)
(* time, and getPreviewUrl is asked at any time.                           *)
(***************************************************************************)
NextPreview ==
  \/ Tick
  \/ CreateDocument(Undef, Undef)
  \/ \E d \in DocIds : UpdateDocument(d, Undef, Obj(<<"x">>))
  \/ \E d \in DocIds : DeleteDocument(d)
  \/ \E job \in pending : GeneratePreview(job)
  \/ \E job \in pending : GeneratePreviewFails(job)
  \/ GeneratePreviews
  \/ \E d \in DocIds : GetPreviewUrl(d)

SpecPreview == Init /\ [][NextPreview]_vars

(***************************************************************************)
(* SpecFolder: the cached documentCount with the clock: folders are        *)
(* created and fetched, documents are created, moved into folders and      *)
(* deleted.                                                                *)
(***************************************************************************)
NextFolder ==
  \/ Tick
  \/ CreateDocument(Undef, Undef)
  \/ \E d \in DocIds : DeleteDocument(d)
  \/ \E d \in DocIds, f \in FolderIds : MoveDocument(d, f)
  \/ CreateFolder(Str(<<"n">>), NoId)
  \/ \E f \in FolderIds : GetFolder(f)

SpecFolder == Init /\ [][NextFolder]_vars

(***************************************************************************)
(* SpecName: folders are created and renamed with the request bodies of    *)
(* NameInputs, with the clock.                                             *)
(***************************************************************************)
NextName ==
  \/ Tick
  \/ \E n \in NameInputs : CreateFolder(n, NoId)
  \/ \E f \in FolderIds, n \in NameInputs : RenameFolder(f, n)

SpecName == Init /\ [][NextName]_vars

(***************************************************************************)
(* SpecCascade: Folder Delete on a file system where the unlink of at most *)
(* one file fails.                                                         *)
(***************************************************************************)
NextCascade ==
  \/ CreateDocument(Undef, Undef)
  \/ \E d \in DocIds, f \in FolderIds : MoveDocument(d, f)
  \/ \E f \in GeneratedFolderIds \cup {NoId} : CreateFolder(Str(<<"n">>), f)
  \/ \E f \in FolderIds, broken \in {{}} \cup {{x} : x \in UnlinkTargets} :
       DeleteFolderFailing(f, broken)

SpecCascade == Init /\ [][NextCascade]_vars

(***************************************************************************)
(* SpecStale: a document is saved with one content after another, and the  *)
(* preview generations the saves started write in any order.               *)
(***************************************************************************)
SavedContents == {Obj(<<"x">>), Obj(<<"y">>)}

NextStale ==
  \/ Tick
  \/ CreateDocument(Undef, Undef)
  \/ \E d \in DocIds, c \in SavedContents : UpdateDocument(d, Undef, c)
  \/ \E job \in pending : GeneratePreview(job)

SpecStale == Init /\ [][NextStale]_vars

(***************************************************************************)
(* SpecAnyId: the handlers that take an id from the URL, called with the   *)
(* id of a document or of a folder, whatever the handler expects.          *)
(***************************************************************************)
AnyIds == DocIds \cup FolderIds

NextAnyId ==
  \/ CreateDocument(Undef, Undef)
  \/ CreateFolder(Str(<<"n">>), NoId)
  \/ \E i \in AnyIds : GetDocument(i)
  \/ \E i \in AnyIds : UpdateDocument(i, Undef, Undef)
  \/ \E i \in AnyIds : DeleteDocument(i)
  \/ \E i \in AnyIds, f \in FolderIds \cup {NoId} : MoveDocument(i, f)
  \/ \E i \in AnyIds : GetFolder(i)
  \/ \E i \in AnyIds : DeleteFolder(i)

SpecAnyId == Init /\ [][NextAnyId]_vars

(***************************************************************************)
(* SpecSanitize: the sanitisation of a title or folder name on its own.    *)
(* The inputs are a run of "a" of a length around the two limits, between  *)
(* a prefix and a suffix of at most MaxPad characters.                     *)
(***************************************************************************)
PadChars == {" ", "?", "b"}
Pads == UNION {[1..n -> PadChars] : n \in 0..MaxPad}
Run(n) == [i \in 1..n |-> "a"]
RunLengths == {0, 1, MaxNameLen - 1, MaxNameLen, MaxTitleLen - 1, MaxTitleLen}
SanitizeInputs == {pre \o Run(n) \o suf : pre \in Pads, suf \in Pads, n \in RunLengths}

InitSanitize ==
  /\ InitStore
  /\ san \in {[pc |-> "start", kind |-> k, input |-> Str(s), out |-> <<>>] :
                k \in {"title", "name"}, s \in SanitizeInputs}

\* the title POST /documents and PUT /documents/{id} store
SanitizeTitle ==
  /\ san.pc = "start"
  /\ san.kind = "title"
  /\ san' = [san EXCEPT !.pc = "done", !.out = SanitizedTitle(san.input)]
  /\ UNCHANGED <<storeVars, now, last, urlSeen, reqs, editor>>

\* the name POST /folders and PUT /folders/{id} store, or their rejection
SanitizeName ==
  /\ san.pc = "start"
  /\ san.kind = "name"
  /\ IF BadName(san.input) \/ SanitizedName(san.input) = <<>>
       THEN san' = [san EXCEPT !.pc = "rejected"]
       ELSE san' = [san EXCEPT !.pc = "done", !.out = SanitizedName(san.input)]
  /\ UNCHANGED <<storeVars, now, last, urlSeen, reqs, editor>>

NextSanitize == SanitizeTitle \/ SanitizeName

SpecSanitize == InitSanitize /\ [][NextSanitize]_vars

(***************************************************************************)
(* SpecWrap: the word wrap of generatePreview on one logical line of at    *)
(* most MaxWords words, each a run of "a" of a length around the line      *)
(* budget, separated by single spaces.                                     *)
(***************************************************************************)
WordLengths == {2, MaxCharsPerLine - 3, MaxCharsPerLine, MaxCharsPerLine + 1}

RECURSIVE JoinWords(_)
JoinWords(lens) ==
  IF lens = <<>> THEN <<>>
  ELSE IF Len(lens) = 1 THEN Run(Head(lens))
  ELSE Run(Head(lens)) \o <<" ">> \o JoinWords(Tail(lens))

WrapInputs == {JoinWords(lens) : lens \in UNION {[1..n -> WordLengths] : n \in 1..MaxWords}}

InitWrap ==
  /\ InitStore
  /\ san \in {[pc |-> "start", kind |-> "wrap", input |-> Str(t), out |-> <<>>] :
                t \in WrapInputs}

\* generatePreview breaking one logical line into display lines
WordWrap ==
  /\ san.pc = "start"
  /\ san.kind = "wrap"
  /\ san' = [san EXCEPT !.pc = "wrapped", !.out = DisplayLines(san.input.v)]
  /\ UNCHANGED <<storeVars, now, last, urlSeen, reqs, editor>>

NextWrap == WordWrap

SpecWrap == InitWrap /\ [][NextWrap]_vars

(***************************************************************************)
(* Properties                                                              *)
(***************************************************************************)
\* the documents whose metadata record refers to folder f
Members(metadataFiles, f) == {k \in DOMAIN metadataFiles : metadataFiles[k].folderId = f}

\* the folders of set S and all their descendants along parentFolderId
RECURSIVE Subtree(_, _)
Subtree(folderFiles, S) ==
  LET more == S \cup {f \in DOMAIN folderFiles : folderFiles[f].parentFolderId \in S}
  IN IF more = S THEN S ELSE Subtree(folderFiles, more)

\* C1: when a move has just returned success, every existing folder record's
\* documentCount equals the number of metadata records whose folderId is that
\* folder (every folder, not only the move's old and new one).
C1_AllCountsAfterMove ==
  (last.op = "move" /\ last.status = 200) =>
    \A f \in DOMAIN folders :
      folders[f].documentCount = Cardinality(Members(meta, f))

\* C2: a successful Folder Delete(F) removes the folder records of F and of all
\* its descendants and the content and metadata files of every document whose
\* folderId was in that subtree, and leaves every other folder and document
\* as it was.
C2_FolderDeleteCascades ==
  [][(last'.op = "deleteFolder" /\ last'.status = 200) =>
       LET tree == Subtree(folders, {last'.id})
           gone == {k \in DOMAIN meta : meta[k].folderId \in tree}
       IN /\ DOMAIN folders' = DOMAIN folders \ tree
          /\ \A f \in DOMAIN folders' : folders'[f] = folders[f]
          /\ DOMAIN meta' = DOMAIN meta \ gone
          /\ DOMAIN docs' = DOMAIN docs \ gone
          /\ \A k \in DOMAIN meta' : meta'[k] = meta[k]
          /\ \A k \in DOMAIN docs' : docs'[k] = docs[k]]_vars

\* a Folder Delete has removed a subfolder and a document with it
C2_Witness ==
  /\ last.op = "deleteFolder"
  /\ last.status = 200
  /\ last.out.folders # {}
  /\ last.out.documents # {}
  /\ last.id \notin DOMAIN folders

\* C4: between requests a document id has a content file if and only if it
\* has a metadata file.
C4_ContentIffMetadata == DOMAIN docs = DOMAIN meta

\* a Folder Delete has removed the documents of the folder, content and
\* metadata alike, and no document is left
C4_Witness ==
  /\ last.op = "deleteFolder"
  /\ last.status = 200
  /\ last.out.documents # {}
  /\ last.out.folders = {}
  /\ DOMAIN docs = {}
  /\ DOMAIN meta = {}

\* C3: a successful Document Delete(id) leaves none of the document's three
\* files: the content file, the metadata file and the preview file that
\* generatePreview wrote for the id.
C3_DeleteRemovesAllThreeFiles ==
  [][(last'.op = "deleteDocument" /\ last'.status = 200 /\ last'.id \in DOMAIN docs) =>
       /\ last'.id \notin DOMAIN docs'
       /\ last'.id \notin DOMAIN meta'
       /\ \A ext \in {"svg", "png"} : <<last'.id, ext>> \notin DOMAIN previews']_vars

\* C5: a Document Update that provides only a title keeps the stored content,
\* sets modifiedAt of the content record and of the metadata record to the
\* time of the update, and stores the size of the updated record (new title,
\* new modifiedAt, unchanged content).
C5_TitleOnlyUpdate ==
  [][(/\ last'.op = "updateDocument"
      /\ last'.status = 200
      /\ last'.title.kind = "string"
      /\ last'.content.kind = "undefined"
      /\ now' = now) =>
       LET id == last'.id
       IN /\ docs'[id].content = docs[id].content
          /\ docs'[id].modifiedAt = now
          /\ meta'[id].modifiedAt = now
          /\ meta'[id].size =
               SizeOf([docs[id] EXCEPT !.title = docs'[id].title, !.modifiedAt = now])]_vars

\* a title-only Update has just been served, at a later time than the
\* creation, on a document whose content is not the default one and whose
\* title it changed
C5_Witness ==
  /\ last.op = "updateDocument"
  /\ last.status = 200
  /\ last.title = Str(<<"a">>)
  /\ last.content = Undef
  /\ docs[last.id].content = Obj(<<"x">>)
  /\ docs[last.id].createdAt < docs[last.id].modifiedAt
  /\ docs[last.id].modifiedAt = now

\* C6: a Document Update that provides only content leaves the title of the
\* content record and of the metadata record unchanged.
C6_ContentOnlyUpdateKeepsTitle ==
  [][(/\ last'.op = "updateDocument"
      /\ last'.status = 200
      /\ last'.title.kind = "undefined"
      /\ Truthy(last'.content)
      /\ now' = now) =>
       /\ docs'[last'.id].title = docs[last'.id].title
       /\ meta'[last'.id].title = meta[last'.id].title]_vars

\* C7: every stored title and folder name contains none of < > : " / \ | ? *,
\* has no leading or trailing whitespace, and is at most 100 (title) or 50
\* (folder name) characters long.
C7_SanitizedIsClean ==
  san.pc = "done" =>
    /\ \A i \in 1..Len(san.out) : san.out[i] \notin UnsafeChars
    /\ san.out # <<>> => (san.out[1] \notin Whitespace /\ san.out[Len(san.out)] \notin Whitespace)
    /\ Len(san.out) <= (IF san.kind = "title" THEN MaxTitleLen ELSE MaxNameLen)

\* C8: a title that is provided but empty after sanitisation is stored as
\* "Untitled Document", and no document is stored with an empty title.
C8_NoEmptyTitle ==
  /\ (/\ last.op \in {"createDocument", "updateDocument"}
      /\ last.status = 200
      /\ last.title.kind = "string"
      /\ Trim(StripUnsafe(last.title.v)) = <<>>
      /\ last.id \in DOMAIN docs) => docs[last.id].title = UntitledDocument
  /\ \A d \in DOMAIN docs : docs[d].title # <<>>
  /\ \A d \in DOMAIN meta : meta[d].title # <<>>

C11_PreviewOutcomeIrrelevant ==
  [][/\ (pending' # pending /\ pending' \subseteq pending) =>
          (last' = last /\ docs' = docs /\ meta' = meta)
     /\ (pending' # pending /\ pending \subseteq pending') =>
          /\ last'.op \in {"createDocument", "updateDocument"}
          /\ last'.status = 200
          /\ last'.id \in DOMAIN docs' \cap DOMAIN meta']_vars

\* the preview generation a successful Create started has failed: no job is
\* pending, the document has no preview, and the response and the records of
\* the Create stand
C11_Witness ==
  /\ last.op = "createDocument"
  /\ last.status = 200
  /\ pending = {}
  /\ PreviewPath(last.id) \notin DOMAIN previews
  /\ last.id \in DOMAIN docs \cap DOMAIN meta

\* C12: Document Get, Update and Delete called with an id that is not shaped
\* doc_* answer invalid-input (400) and leave every content, metadata, folder
\* and preview file as it is.
C12_IllShapedDocIdRejected ==
  [][(/\ last' # last
      /\ last'.op \in {"getDocument", "updateDocument", "deleteDocument"}
      /\ ~IsDocId(last'.id)) =>
       /\ last'.status = 400
       /\ UNCHANGED <<docs, meta, folders, previews>>]_vars

\* C13: a move whose target folder id is well-shaped but has no folder record,
\* or whose document has no metadata record, answers not-found (404) and
\* leaves every metadata record and every folder record, documentCount
\* included, as it was.
C13_MoveNotFoundChangesNothing ==
  [][(/\ last'.op = "move"
      /\ IsDocId(last'.id)
      /\ \/ IsFolderId(last'.target) /\ last'.target \notin DOMAIN folders
         \/ last'.target \in DOMAIN folders \cup {NoId} /\ last'.id \notin DOMAIN meta) =>
       /\ last'.status = 404
       /\ meta' = meta
       /\ folders' = folders]_vars

\* a move of an existing document, itself in a folder, to a folder that has no
\* record has been answered not-found
C13_Witness ==
  /\ last.op = "move"
  /\ last.status = 404
  /\ IsFolderId(last.target)
  /\ last.target \notin DOMAIN folders
  /\ last.id \in DOMAIN meta
  /\ meta[last.id].folderId \in DOMAIN folders

C16_SeedsWheneverNoFolderRecord ==
  [][(last'.op = "listFolders" /\ last' # last) =>
       IF DOMAIN folders = {}
         THEN /\ Cardinality(DOMAIN folders') = 2
              /\ {folders'[f].name : f \in DOMAIN folders'} = {Notes, Journal}
              /\ \A f \in DOMAIN folders' :
                    folders'[f].parentFolderId = NoId /\ folders'[f].documentCount = 0
         ELSE folders' = folders]_vars

\* C17: a Folder Create, and a Folder Rename of an existing folder, whose name
\* is a string that is empty after sanitisation answers invalid-input (400)
\* and creates or changes no folder record.
C17_EmptyNameRejected ==
  [][(/\ last'.op \in {"createFolder", "renameFolder"}
      /\ now' = now
      /\ last'.title.kind = "string"
      /\ Sanitize(last'.title.v, MaxNameLen) = <<>>
      /\ last'.op = "renameFolder" => last'.id \in DOMAIN folders) =>
       /\ last'.status = 400
       /\ folders' = folders]_vars

\* C18: a batch preview run generates a preview exactly for the documents
\* that have no preview file, counts every document that has one as skipped
\* and leaves that preview as it is; so a run that follows a run generates
\* nothing.
C18_BatchSkipsExistingPreviews ==
  [][(last'.op = "generatePreviews" /\ pending' = pending /\ now' = now) =>
       LET have == {d \in DOMAIN docs : PreviewPath(d) \in DOMAIN previews}
       IN /\ last'.out.generated = Cardinality(DOMAIN docs \ have)
          /\ last'.out.skipped = Cardinality(have)
          /\ \A d \in have : previews'[PreviewPath(d)] = previews[PreviewPath(d)]
          /\ last.op = "generatePreviews" => last'.out.generated = 0]_vars

\* C19: every display line the word wrap emits has at most maxCharsPerLine
\* characters, and a word longer than maxCharsPerLine is never emitted in
\* full, wherever it stands in the logical line.
C19_DisplayLinesFit ==
  san.pc = "wrapped" =>
    /\ \A i \in 1..Len(san.out) : Len(san.out[i]) <= MaxCharsPerLine
    /\ \A i \in 1..Len(san.out) : san.out[i] # Run(MaxCharsPerLine + 1)

\* C20: a Folder Delete during which the removal of a document or of a
\* subfolder fails never answers success while a document or a subfolder of
\* the deleted folder's subtree still exists.
C20_CascadeFailureAborts ==
  [][(last'.op = "deleteFolder" /\ last'.status = 200 /\ last'.id \in DOMAIN folders) =>
       LET tree == Subtree(folders, {last'.id})
       IN /\ \A f \in tree : f \notin DOMAIN folders'
          /\ \A k \in DOMAIN meta :
                meta[k].folderId \in tree => (k \notin DOMAIN meta' /\ k \notin DOMAIN docs')]_vars

\* C22: a successful Document Update of a document whose metadata has
\* folderId F leaves the folderId F in the metadata, the document among the
\* documents Folder Get(F) returns, and every field of the metadata record
\* other than title, size and modifiedAt as it was.
C22_UpdateKeepsFolder ==
  [][(last'.op = "updateDocument" /\ last'.status = 200 /\ meta[last'.id].folderId # NoId) =>
       LET id == last'.id
           F == meta[id].folderId
       IN /\ meta'[id].folderId = F
          /\ id \in DocumentsIn(meta', F)
          /\ meta'[id].id = meta[id].id
          /\ meta'[id].createdAt = meta[id].createdAt]_vars

\* C26: between requests served one at a time, the parentFolderId of every
\* folder record that has one is the id of an existing folder record, and so
\* every folder record is found from the root listing by following the
\* subfolders of Folder Get.
C26_ParentExists ==
  /\ \A f \in DOMAIN folders :
        folders[f].parentFolderId # NoId => folders[f].parentFolderId \in DOMAIN folders
  /\ Subtree(folders, RootFolders(folders)) = DOMAIN folders

\* C28: once every preview generation the Updates of a document started has
\* written, the stored preview of the document is the one rendered from the
\* content the document stores (the preview of an Update's content, not the
\* one of the Create).
C28_PreviewOfLatestContent ==
  \A d \in DOMAIN docs :
    (/\ pending = {}
     /\ PreviewPath(d) \in DOMAIN previews
     /\ previews[PreviewPath(d)].src \in SavedContents) =>
      previews[PreviewPath(d)].src = docs[d].content

(***************************************************************************)
(* Requests served concurrently.  A route handler runs until its next      *)
(* await; between two awaits of one handler the steps of other handlers    *)
(* may run.  reqs holds, for every handler that is between two awaits, the *)
(* local variables it carries across.                                      *)
(***************************************************************************)
MaxRequests == 2
Requests == 1..MaxRequests

\* the handler of request r moves on with local variables rec
Await(r, rec) == [x \in DOMAIN reqs \cup {r} |-> IF x = r THEN rec ELSE reqs[x]]

\* the handler of request r returns; its response stays on record
Return(r, status) == Await(r, [reqs[r] EXCEPT !.pc = "returned", !.status = status])

Returned(r) == r \in DOMAIN reqs /\ reqs[r].pc = "returned"

\* no handler is between two awaits
Quiescent == \A r \in DOMAIN reqs : reqs[r].pc = "returned"

At(r, op, pc) == r \in DOMAIN reqs /\ reqs[r].op = op /\ reqs[r].pc = pc

DefaultFolders == <<Notes, Journal>>

\* GET /folders up to its first await: both existsSync checks, then mkdir or readdir is issued
ListFoldersStart(r) ==
  /\ r \notin DOMAIN reqs
  /\ reqs' = Await(r, [op |-> "listFolders", pc |-> IF foldersDir THEN "readdir" ELSE "mkdir",
                       status |-> 0, i |-> 1])
  /\ UNCHANGED <<storeVars, now, last, urlSeen, san, editor>>

\* createDefaultFolders: await mkdir(foldersDir, { recursive: true })
ListFoldersMkdir(r) ==
  /\ At(r, "listFolders", "mkdir")
  /\ foldersDir' = TRUE
  /\ reqs' = Await(r, [reqs[r] EXCEPT !.pc = "writeFile"])
  /\ UNCHANGED <<docs, meta, folders, previews, pending, nextDoc, nextFolder, now, last,
                 urlSeen, san, editor>>

\* createDefaultFolders: one turn of the loop over the default folders
ListFoldersWriteDefault(r) ==
  /\ At(r, "listFolders", "writeFile")
  /\ LET i == reqs[r].i
         folderId == FolderId(nextFolder)
     IN /\ folders' = WriteFile(folders, folderId, NewFolder(folderId, DefaultFolders[i], NoId, now))
        /\ nextFolder' = nextFolder + 1
        /\ reqs' = Await(r, [reqs[r] EXCEPT !.i = i + 1,
                                            !.pc = IF i = Len(DefaultFolders) THEN "readdir" ELSE "writeFile"])
  /\ UNCHANGED <<docs, meta, foldersDir, previews, pending, nextDoc, now, last, urlSeen, san, editor>>

\* GET /folders: readdir, the records read, the response
ListFoldersRead(r) ==
  /\ At(r, "listFolders", "readdir")
  /\ last' = Response("listFolders", NoId, 200, Undef, Undef, NoId, RootFolders(folders))
  /\ reqs' = Return(r, 200)
  /\ UNCHANGED <<storeVars, now, urlSeen, san, editor>>

(***************************************************************************)
(* SpecSeed: Folder List requests served concurrently on a store that has  *)
(* no folders directory at first.                                          *)
(***************************************************************************)
NextSeed ==
  \/ Tick
  \/ \E r \in Requests : ListFoldersStart(r)
  \/ \E r \in Requests : ListFoldersMkdir(r)
  \/ \E r \in Requests : ListFoldersWriteDefault(r)
  \/ \E r \in Requests : ListFoldersRead(r)

SpecSeed == Init /\ [][NextSeed]_vars

\* C27: the default folders are seeded at most once, also when Folder List
\* requests run concurrently on a store with no folders directory: there is
\* never more than one Notes and one Journal record.
C27_SeedsAtMostOnce ==
  \A name \in {Notes, Journal} :
    Cardinality({f \in DOMAIN folders : folders[f].name = name}) <= 1

(***************************************************************************)
(* PUT /documents/{id}/move and PUT /folders/{id}, await by await.  The    *)
(* readdir of updateFolderCounts and the reads of the files it lists are   *)
(* one step.                                                               *)
(***************************************************************************)

\* [oldFolderId, newFolderId].filter(...), in the order of the loop
FoldersToUpdateSeq(oldFolderId, newFolderId) == SelectSeq(<<oldFolderId, newFolderId>>, IsFolderId)

\* the loop of updateFolderCounts passing the folders whose record does not exist
RECURSIVE SkipMissing(_, _)
SkipMissing(todo, folderFiles) ==
  IF todo = <<>> THEN <<>>
  ELSE IF Head(todo) \in DOMAIN folderFiles THEN todo
  ELSE SkipMissing(Tail(todo), folderFiles)

\* updateFolderCounts goes on to the next folder record that exists, or the move returns
MoveNextFolder(r, rec, todo, folderFiles) ==
  LET left == SkipMissing(todo, folderFiles)
  IN IF left = <<>>
       THEN /\ reqs' = Await(r, [rec EXCEPT !.pc = "returned", !.status = 200, !.todo = <<>>])
            /\ last' = Response("move", rec.id, 200, Undef, Undef, rec.target, rec.oldFolderId)
       ELSE /\ reqs' = Await(r, [rec EXCEPT !.pc = "readFolder", !.todo = left])
            /\ UNCHANGED last

\* PUT /documents/{id}/move up to its first await (ids of the right shape)
MoveStart(r, id, target) ==
  /\ r \notin DOMAIN reqs
  /\ IF TargetFolderMissing(target) \/ id \notin DOMAIN meta
       THEN /\ last' = Response("move", id, 404, Undef, Undef, target, NoId)
            /\ UNCHANGED reqs
       ELSE /\ reqs' = Await(r, [op |-> "move", pc |-> "readFile", status |-> 0, id |-> id,
                                 target |-> target, oldFolderId |-> NoId, todo |-> <<>>])
            /\ UNCHANGED last
  /\ UNCHANGED <<storeVars, now, urlSeen, san, editor>>

\* readFile(metadataPath), then the new record is made
MoveReadMetadata(r) ==
  /\ At(r, "move", "readFile")
  /\ LET id == reqs[r].id
     IN IF id \notin DOMAIN meta
          THEN /\ reqs' = Return(r, 500)
               /\ last' = Response("move", id, 500, Undef, Undef, reqs[r].target, NoId)
          ELSE /\ reqs' = Await(r, [op |-> "move", pc |-> "writeFile", status |-> 0, id |-> id,
                                    target |-> reqs[r].target,
                                    oldFolderId |-> meta[id].folderId, todo |-> <<>>,
                                    metadata |-> [meta[id] EXCEPT !.folderId = reqs[r].target,
                                                                  !.modifiedAt = now]])
               /\ UNCHANGED last
  /\ UNCHANGED <<storeVars, now, urlSeen, san, editor>>

\* writeFile(metadataPath, metadata)
MoveWriteMetadata(r) ==
  /\ At(r, "move", "writeFile")
  /\ meta' = WriteFile(meta, reqs[r].id, reqs[r].metadata)
  /\ reqs' = Await(r, [reqs[r] EXCEPT !.pc = "readdir"])
  /\ UNCHANGED <<docs, folders, foldersDir, previews, pending, nextDoc, nextFolder, now, last,
                 urlSeen, san, editor>>

\* updateFolderCounts: the metadata records are counted
MoveCount(r) ==
  /\ At(r, "move", "readdir")
  /\ LET rec == [op |-> "move", pc |-> "readdir", status |-> 0, id |-> reqs[r].id,
                 target |-> reqs[r].target, oldFolderId |-> reqs[r].oldFolderId, todo |-> <<>>,
                 metadata |-> reqs[r].metadata,
                 folderCounts |-> [f \in FolderIds |-> LiveCount(meta, f)],
                 folderData |-> <<>>]
     IN MoveNextFolder(r, rec, FoldersToUpdateSeq(rec.oldFolderId, rec.target), folders)
  /\ UNCHANGED <<storeVars, now, urlSeen, san, editor>>

\* updateFolderCounts: readFile(folderPath), then the record gets the count
MoveReadFolder(r) ==
  /\ At(r, "move", "readFolder")
  /\ LET folderId == Head(reqs[r].todo)
     IN IF folderId \notin DOMAIN folders
          THEN MoveNextFolder(r, reqs[r], Tail(reqs[r].todo), folders)
          ELSE /\ reqs' = Await(r, [reqs[r] EXCEPT
                                      !.pc = "writeFolder",
                                      !.folderData =
                                         [folders[folderId] EXCEPT
                                            !.documentCount = reqs[r].folderCounts[folderId],
                                            !.modifiedAt = now]])
               /\ UNCHANGED last
  /\ UNCHANGED <<storeVars, now, urlSeen, san, editor>>

\* a write of the count into the folder record as it is when the write lands
MoveWriteFolderMerged(r) ==
  /\ At(r, "move", "writeFolder")
  /\ LET folderId == Head(reqs[r].todo)
         written == IF folderId \in DOMAIN folders
                      THEN WriteFile(folders, folderId,
                                     [folders[folderId] EXCEPT
                                        !.documentCount = reqs[r].folderData.documentCount,
                                        !.modifiedAt = reqs[r].folderData.modifiedAt])
                      ELSE folders
     IN /\ folders' = written
        /\ MoveNextFolder(r, reqs[r], Tail(reqs[r].todo), written)
  /\ UNCHANGED <<docs, meta, foldersDir, previews, pending, nextDoc, nextFolder, now, urlSeen,
                 san, editor>>

\* updateFolderCounts: writeFile(folderPath, folderData)
MoveWriteFolder(r) ==
  /\ At(r, "move", "writeFolder")
  /\ LET folderId == Head(reqs[r].todo)
         written == WriteFile(folders, folderId, reqs[r].folderData)
     IN /\ folders' = written
        /\ MoveNextFolder(r, reqs[r], Tail(reqs[r].todo), written)
  /\ UNCHANGED <<docs, meta, foldersDir, previews, pending, nextDoc, nextFolder, now, urlSeen,
                 san, editor>>

\* PUT /folders/{id} up to its first await (an id of the right shape)
RenameFolderStart(r, id, name) ==
  /\ r \notin DOMAIN reqs
  /\ IF id \notin DOMAIN folders
       THEN /\ last' = Response("renameFolder", id, 404, name, Undef, NoId, NoId)
            /\ UNCHANGED reqs
       ELSE /\ reqs' = Await(r, [op |-> "renameFolder", pc |-> "readFile", status |-> 0,
                                 id |-> id, name |-> name, folderData |-> <<>>])
            /\ UNCHANGED last
  /\ UNCHANGED <<storeVars, now, urlSeen, san, editor>>

\* readFile(folderPath), then the record gets the name
RenameFolderRead(r) ==
  /\ At(r, "renameFolder", "readFile")
  /\ LET id == reqs[r].id
         name == reqs[r].name
     IN IF id \notin DOMAIN folders
          THEN /\ reqs' = Return(r, 500)
               /\ last' = Response("renameFolder", id, 500, name, Undef, NoId, NoId)
          ELSE IF ~BadName(name) /\ SanitizedName(name) = <<>>
          THEN /\ reqs' = Return(r, 400)
               /\ last' = Response("renameFolder", id, 400, name, Undef, NoId, NoId)
          ELSE /\ reqs' = Await(r, [reqs[r] EXCEPT
                                      !.pc = "writeFile",
                                      !.folderData =
                                         IF ~BadName(name)
                                           THEN [folders[id] EXCEPT !.name = SanitizedName(name),
                                                                    !.modifiedAt = now]
                                           ELSE folders[id]])
               /\ UNCHANGED last
  /\ UNCHANGED <<storeVars, now, urlSeen, san, editor>>

\* writeFile(folderPath, folderData)
RenameFolderWrite(r) ==
  /\ At(r, "renameFolder", "writeFile")
  /\ folders' = WriteFile(folders, reqs[r].id, reqs[r].folderData)
  /\ reqs' = Return(r, 200)
  /\ last' = Response("renameFolder", reqs[r].id, 200, reqs[r].name, Undef, NoId, NoId)
  /\ UNCHANGED <<docs, meta, foldersDir, previews, pending, nextDoc, nextFolder, now, urlSeen,
                 san, editor>>

(***************************************************************************)
(* SpecRace: moves and renames served concurrently on a store with the     *)
(* default folders and documents.                                          *)
(***************************************************************************)
NewName == Str(<<"n">>)

\* the two requests that overlap
Racers == {"first", "second"}

NextRace ==
  \/ CreateDocument(Undef, Undef)
  \/ ListFolders
  \/ \E r \in Racers, d \in DocIds, f \in FolderIds \cup {NoId} : MoveStart(r, d, f)
  \/ \E r \in Racers : MoveReadMetadata(r)
  \/ \E r \in Racers : MoveWriteMetadata(r)
  \/ \E r \in Racers : MoveCount(r)
  \/ \E r \in Racers : MoveReadFolder(r)
  \/ \E r \in Racers : MoveWriteFolder(r)
  \/ \E r \in Racers, f \in FolderIds : RenameFolderStart(r, f, NewName)
  \/ \E r \in Racers : RenameFolderRead(r)
  \/ \E r \in Racers : RenameFolderWrite(r)

SpecRace == Init /\ [][NextRace]_vars

\* a rename of folder f that returned success
RenamedOk(f) ==
  \E r \in DOMAIN reqs :
    reqs[r].op = "renameFolder" /\ reqs[r].id = f /\ reqs[r].pc = "returned" /\ reqs[r].status = 200

\* C21: a move and a rename of F that overlap lose the rename although both
\* return success: when the count write of a move lands on the record of F
\* that a rename, which has returned 200, changed after the move read it, the
\* record has the old name again, and a move that got past its checks
\* returns 200.
C21_LostUpdate ==
  [][\A r \in DOMAIN reqs :
       /\ (/\ reqs[r].op = "move" /\ reqs[r].pc = "writeFolder" /\ reqs'[r] # reqs[r]
           /\ RenamedOk(Head(reqs[r].todo))
           /\ folders[Head(reqs[r].todo)].name = SanitizedName(NewName)
           /\ reqs[r].folderData.name # SanitizedName(NewName))
          => folders'[Head(reqs[r].todo)].name = reqs[r].folderData.name
       /\ (reqs[r].op = "move" /\ reqs[r].pc # "returned" /\ reqs'[r].pc = "returned")
          => reqs'[r].status = 200]_vars

\* both requests have returned 200 and the folder has the name it had before the rename
C21_Witness ==
  \E f \in DOMAIN folders, r \in DOMAIN reqs :
    /\ Quiescent
    /\ RenamedOk(f)
    /\ reqs[r].op = "move" /\ reqs[r].status = 200 /\ reqs[r].target = f
    /\ folders[f].name # SanitizedName(NewName)

(***************************************************************************)
(* DELETE /folders/{id}, await by await: each of its three awaited calls   *)
(* is one step.                                                            *)
(***************************************************************************)

\* DELETE /folders/{id} up to its first await (an id of the right shape)
DeleteFolderStart(r, id) ==
  /\ r \notin DOMAIN reqs
  /\ IF id \notin DOMAIN folders
       THEN /\ last' = Response("deleteFolder", id, 404, Undef, Undef, NoId, NoId)
            /\ UNCHANGED reqs
       ELSE /\ reqs' = Await(r, [op |-> "deleteFolder", pc |-> "documents", status |-> 0, id |-> id,
                                 target |-> id, stack |-> <<>>])
            /\ UNCHANGED last
  /\ UNCHANGED <<storeVars, now, urlSeen, san, editor>>

\* await deleteDocumentsInFolder(folderId)
DeleteFolderDocuments(r) ==
  /\ At(r, "deleteFolder", "documents")
  /\ LET s1 == DeleteDocumentsInFolder([docs |-> docs, meta |-> meta, folders |-> folders], reqs[r].id)
     IN docs' = s1.docs /\ meta' = s1.meta
  /\ reqs' = Await(r, [reqs[r] EXCEPT !.pc = "subfolders"])
  /\ UNCHANGED <<folders, foldersDir, previews, pending, nextDoc, nextFolder, now, last, urlSeen,
                 san, editor>>

\* await deleteSubfoldersInFolder(folderId)
DeleteFolderSubfolders(r) ==
  /\ At(r, "deleteFolder", "subfolders")
  /\ LET s1 == DeleteSubfoldersInFolder([docs |-> docs, meta |-> meta, folders |-> folders], reqs[r].id)
     IN docs' = s1.docs /\ meta' = s1.meta /\ folders' = s1.folders
  /\ reqs' = Await(r, [reqs[r] EXCEPT !.pc = "unlink"])
  /\ UNCHANGED <<foldersDir, previews, pending, nextDoc, nextFolder, now, last, urlSeen, san, editor>>

\* await unlink(folderPath)
DeleteFolderUnlink(r) ==
  /\ At(r, "deleteFolder", "unlink")
  /\ LET id == reqs[r].id
         status == IF id \in DOMAIN folders THEN 200 ELSE 500
     IN /\ folders' = Unlink(folders, {id})
        /\ reqs' = Return(r, status)
        /\ last' = Response("deleteFolder", id, status, Undef, Undef, NoId, NoId)
  /\ UNCHANGED <<docs, meta, foldersDir, previews, pending, nextDoc, nextFolder, now, urlSeen,
                 san, editor>>

(***************************************************************************)
(* SpecOrphan: moves and folder deletions served concurrently.             *)
(***************************************************************************)
NextOrphan ==
  \/ CreateDocument(Undef, Undef)
  \/ \E f \in GeneratedFolderIds \cup {NoId} : CreateFolder(NewName, f)
  \/ \E r \in Racers, d \in DocIds, f \in FolderIds \cup {NoId} : MoveStart(r, d, f)
  \/ \E r \in Racers : MoveReadMetadata(r)
  \/ \E r \in Racers : MoveWriteMetadata(r)
  \/ \E r \in Racers : MoveCount(r)
  \/ \E r \in Racers : MoveReadFolder(r)
  \/ \E r \in Racers : MoveWriteFolder(r)
  \/ \E r \in Racers, f \in FolderIds : DeleteFolderStart(r, f)
  \/ \E r \in Racers : DeleteFolderDocuments(r)
  \/ \E r \in Racers : DeleteFolderSubfolders(r)
  \/ \E r \in Racers : DeleteFolderUnlink(r)

SpecOrphan == Init /\ [][NextOrphan]_vars

\* C25: in every state where no request is between two of its steps, also
\* after a move into F that overlapped Folder Delete(F), the folderId of
\* every metadata record is null or the id of an existing folder record.
C25_FolderIdRefersToFolder ==
  Quiescent =>
    \A d \in DOMAIN meta : meta[d].folderId # NoId => meta[d].folderId \in DOMAIN folders

(***************************************************************************)
(* The create page and its editor: src/app/document/create/page.tsx 8-88   *)
(* and src/components/UniverEditor.tsx.  editor.calls is the list of the   *)
(* onSave calls of the session, each with the fetch it issued.             *)
(***************************************************************************)
MaxSaves == 2

\* the page after its first render
OpenEditor ==
  [open |-> TRUE, savedDocumentIdRef |-> NoId, saving |-> FALSE, autoSaveStatus |-> "idle",
   saveTimeout |-> FALSE, titleSaveTimeout |-> FALSE, calls |-> <<>>]

\* what the editor sends: the title of the input field and the extracted content
EditorTitle == Str(<<"n">>)
EditorContent == Obj(<<"x">>)

OpenCreatePage ==
  /\ editor = ClosedEditor
  /\ editor' = OpenEditor
  /\ UNCHANGED <<storeVars, now, last, urlSeen, san, reqs>>

\* handleDocumentChange on a change of the content; the listener registered at
\* mount sees saving = false
DocumentChange ==
  /\ editor.open
  /\ editor' = [editor EXCEPT !.autoSaveStatus = "changed", !.saveTimeout = TRUE]
  /\ UNCHANGED <<storeVars, now, last, urlSeen, san, reqs>>

\* handleTitleChange(newTitle) with a title other than the last one
TitleChange ==
  /\ editor.open
  /\ ~editor.saving
  /\ editor' = [editor EXCEPT !.autoSaveStatus = "changed", !.titleSaveTimeout = TRUE]
  /\ UNCHANGED <<storeVars, now, last, urlSeen, san, reqs>>

\* handleSave of the page up to its fetch: PUT when the ref holds an id, POST otherwise
OnSave(from) ==
  [from |-> from, pc |-> "fetch",
   method |-> IF editor.savedDocumentIdRef # NoId THEN "PUT" ELSE "POST",
   id |-> editor.savedDocumentIdRef]

\* the timeout of handleDocumentChange fires
ContentAutoSave ==
  /\ editor.open
  /\ editor.saveTimeout
  /\ Len(editor.calls) < MaxSaves
  /\ editor' = [editor EXCEPT !.saveTimeout = FALSE, !.autoSaveStatus = "saving",
                              !.calls = Append(@, OnSave("content"))]
  /\ UNCHANGED <<storeVars, now, last, urlSeen, san, reqs>>

\* the timeout of handleTitleChange fires
TitleAutoSave ==
  /\ editor.open
  /\ editor.titleSaveTimeout
  /\ Len(editor.calls) < MaxSaves
  /\ editor' = [editor EXCEPT !.titleSaveTimeout = FALSE, !.autoSaveStatus = "saving",
                              !.calls = Append(@, OnSave("title"))]
  /\ UNCHANGED <<storeVars, now, last, urlSeen, san, reqs>>

\* handleSave of the editor: the Save button
ClickSave ==
  /\ editor.open
  /\ ~editor.saving
  /\ Len(editor.calls) < MaxSaves
  /\ editor' = [editor EXCEPT !.saving = TRUE, !.calls = Append(@, OnSave("button"))]
  /\ UNCHANGED <<storeVars, now, last, urlSeen, san, reqs>>

\* the fetch of call c is served and handleSave of the page goes on: it throws
\* unless response.ok, else stores result.documentId in the empty ref; then the
\* caller goes on: the timeouts set 'idle' after the await, the button clears
\* saving in its finally
FetchResponds(c) ==
  /\ editor.open
  /\ c \in DOMAIN editor.calls
  /\ editor.calls[c].pc = "fetch"
  /\ IF editor.calls[c].method = "POST"
       THEN PostDocument(EditorTitle, EditorContent)
       ELSE PutDocument(editor.calls[c].id, EditorTitle, EditorContent)
  /\ LET ok == last'.status = 200
         auto == editor.calls[c].from \in {"content", "title"}
     IN editor' = [editor EXCEPT
                     !.calls[c].pc = IF ok THEN "resolved" ELSE "rejected",
                     !.savedDocumentIdRef = IF ok /\ @ = NoId THEN last'.id ELSE @,
                     !.autoSaveStatus = IF auto /\ ok THEN "idle" ELSE @,
                     !.saving = IF auto THEN @ ELSE FALSE]
  /\ UNCHANGED <<now, urlSeen, san, reqs>>

(***************************************************************************)
(* SpecEditor: one session of the create page; the documents it saved can  *)
(* be deleted from the home page meanwhile.                                *)
(***************************************************************************)
NextEditor ==
  \/ OpenCreatePage
  \/ DocumentChange
  \/ TitleChange
  \/ ContentAutoSave
  \/ TitleAutoSave
  \/ ClickSave
  \/ \E c \in 1..MaxSaves : FetchResponds(c)
  \/ \E d \in DOMAIN docs : DeleteDocument(d)

SpecEditor == Init /\ [][NextEditor]_vars

\* C29: in one session of the create page at most one document is created:
\* only the first save is a POST and every later save, also one issued while
\* the first is in flight, is a PUT of the id the first one created.
C29_OneDocumentPerSession ==
  editor.open =>
    /\ nextDoc <= 2
    /\ \A c \in DOMAIN editor.calls :
         c > 1 => editor.calls[c].method = "PUT" /\ editor.calls[c].id = DocId(1)

\* C30: the editor shows 'saving' only while the save call of an auto-save
\* is in flight: once the call has finished, with success or failure, the
\* status is no longer 'saving'.
C30_SavingOnlyWhileInFlight ==
  (editor.open /\ editor.autoSaveStatus = "saving") =>
    \E c \in DOMAIN editor.calls :
      editor.calls[c].from \in {"content", "title"} /\ editor.calls[c].pc = "fetch"

(***************************************************************************)
(* deleteSubfoldersInFolder, await by await.  The request carries the      *)
(* stack of the calls of deleteSubfoldersInFolder that have not returned:  *)
(* per call its folderId, the files of its readdir it has not looked at,   *)
(* and the subfolder it is deleting.  readdir lists in the order of the    *)
(* ids.  The depth of the recursion is capped at MaxDepth calls.           *)
(***************************************************************************)
MaxDepth == MaxFolders + 1

\* readdir(foldersDir)
Listing(folderFiles) ==
  SelectSeq([n \in 1..(nextFolder - 1) |-> FolderId(n)], LAMBDA f : f \in DOMAIN folderFiles)

Top(r) == reqs[r].stack[Len(reqs[r].stack)]

\* the stack with its top frame replaced
WithTop(r, frame) == [reqs[r].stack EXCEPT ![Len(reqs[r].stack)] = frame]

\* deleteSubfoldersInFolder(target) is called and lists the directory
CascadeReaddir(r) ==
  /\ At(r, "deleteFolder", "subfolders")
  /\ Len(reqs[r].stack) < MaxDepth
  /\ reqs' = Await(r, [reqs[r] EXCEPT
                         !.pc = "readFile",
                         !.stack = Append(@, [folderId |-> reqs[r].target,
                                              files |-> Listing(folders), sub |-> NoId])])
  /\ UNCHANGED <<storeVars, now, last, urlSeen, san, editor>>

\* a loop that unlinks the record of a subfolder as soon as it has read it
CascadeLoopUnlinkingFirst(r) ==
  /\ At(r, "deleteFolder", "readFile")
  /\ LET top == Top(r)
         depth == Len(reqs[r].stack)
     IN IF top.files = <<>>
          THEN /\ reqs' = Await(r, [reqs[r] EXCEPT
                                      !.pc = IF depth = 1 THEN "unlink" ELSE "unlinkSub",
                                      !.stack = SubSeq(@, 1, depth - 1)])
               /\ UNCHANGED folders
          ELSE LET file == Head(top.files)
               IN IF file \in DOMAIN folders /\ folders[file].parentFolderId = top.folderId
                    THEN /\ reqs' = Await(r, [reqs[r] EXCEPT
                                                !.pc = "subDocuments",
                                                !.target = file,
                                                !.stack = WithTop(r, [top EXCEPT !.files = Tail(@),
                                                                                 !.sub = file])])
                         /\ folders' = Unlink(folders, {file})
                    ELSE /\ reqs' = Await(r, [reqs[r] EXCEPT
                                                !.stack = WithTop(r, [top EXCEPT !.files = Tail(@)])])
                         /\ UNCHANGED folders
  /\ UNCHANGED <<docs, meta, foldersDir, previews, pending, nextDoc, nextFolder, now, last,
                 urlSeen, san, editor>>

\* one turn of the loop of deleteSubfoldersInFolder: the next file is read and,
\* when it is a subfolder of the call's folder, its deletion begins; after the
\* last file the call returns to the unlink that follows it in its caller
CascadeLoop(r) ==
  /\ At(r, "deleteFolder", "readFile")
  /\ LET top == Top(r)
         depth == Len(reqs[r].stack)
     IN IF top.files = <<>>
          THEN /\ reqs' = Await(r, [reqs[r] EXCEPT
                                      !.pc = IF depth = 1 THEN "unlink" ELSE "unlinkSub",
                                      !.stack = SubSeq(@, 1, depth - 1)])
               /\ UNCHANGED folders
          ELSE LET file == Head(top.files)
               IN IF file \in DOMAIN folders /\ folders[file].parentFolderId = top.folderId
                    THEN /\ reqs' = Await(r, [reqs[r] EXCEPT
                                                !.pc = "subDocuments",
                                                !.target = file,
                                                !.stack = WithTop(r, [top EXCEPT !.files = Tail(@),
                                                                                 !.sub = file])])
                         /\ UNCHANGED folders
                    ELSE /\ reqs' = Await(r, [reqs[r] EXCEPT
                                                !.stack = WithTop(r, [top EXCEPT !.files = Tail(@)])])
                         /\ UNCHANGED folders
  /\ UNCHANGED <<docs, meta, foldersDir, previews, pending, nextDoc, nextFolder, now, last,
                 urlSeen, san, editor>>

\* await deleteDocumentsInFolder(subfolder.id)
CascadeDocuments(r) ==
  /\ At(r, "deleteFolder", "subDocuments")
  /\ LET s1 == DeleteDocumentsInFolder([docs |-> docs, meta |-> meta, folders |-> folders],
                                       reqs[r].target)
     IN docs' = s1.docs /\ meta' = s1.meta
  /\ reqs' = Await(r, [reqs[r] EXCEPT !.pc = "subfolders"])
  /\ UNCHANGED <<folders, foldersDir, previews, pending, nextDoc, nextFolder, now, last, urlSeen,
                 san, editor>>

\* await unlink(filePath) of the subfolder whose content has been deleted
CascadeUnlink(r) ==
  /\ At(r, "deleteFolder", "unlinkSub")
  /\ folders' = Unlink(folders, {Top(r).sub})
  /\ reqs' = Await(r, [reqs[r] EXCEPT !.pc = "readFile"])
  /\ UNCHANGED <<docs, meta, foldersDir, previews, pending, nextDoc, nextFolder, now, last,
                 urlSeen, san, editor>>

(***************************************************************************)
(* SpecTree: folder trees built through the API and deleted, one request   *)
(* at a time, the deletion followed await by await.  POST /folders is sent *)
(* any parentFolderId of the right shape.                                  *)
(***************************************************************************)
NextTree ==
  \/ Quiescent /\ CreateDocument(Undef, Undef)
  \/ Quiescent /\ \E d \in DocIds, f \in FolderIds : MoveDocument(d, f)
  \/ Quiescent /\ \E f \in FolderIds \cup {NoId} : CreateFolder(NewName, f)
  \/ Quiescent /\ \E r \in Racers, f \in FolderIds : DeleteFolderStart(r, f)
  \/ \E r \in Racers : DeleteFolderDocuments(r)
  \/ \E r \in Racers : CascadeReaddir(r)
  \/ \E r \in Racers : CascadeLoop(r)
  \/ \E r \in Racers : CascadeDocuments(r)
  \/ \E r \in Racers : CascadeUnlink(r)
  \/ \E r \in Racers : DeleteFolderUnlink(r)

SpecTree == Init /\ [][NextTree]_vars

RECURSIVE ParentChain(_, _, _)
ParentChain(folderFiles, f, n) ==
  IF n = 0 \/ f \notin DOMAIN folderFiles \/ folderFiles[f].parentFolderId = NoId
    THEN {}
    ELSE {folderFiles[f].parentFolderId} \cup
         ParentChain(folderFiles, folderFiles[f].parentFolderId, n - 1)

\* f lies on a cycle of the parentFolderId relation
OnCycle(folderFiles, f) == f \in ParentChain(folderFiles, f, Cardinality(DOMAIN folderFiles))

====
